---- MODULE Spec2Model ----
(***************************************************************************)
(* zip-eq: ZipEqEagerCheck and ZipEqLazyCheck, the two length-checking zip *)
(* adapters, and the three builders of trait ZipEq.                        *)
(*                                                                         *)
(* An inner iterator is a window lo..hi-1 over the sequence its input      *)
(* produces.  An input is a sequence of values in which the entry Gap      *)
(* stands for one answer of None: an input without Gap is a fused,         *)
(* exact-size iterator such as core::array::IntoIter, an input with a Gap  *)
(* is an iterator that yields again after having answered None, which the  *)
(* plain Iterator bound of the adapters allows.                            *)
(***************************************************************************)
EXTENDS Integers, Sequences, FiniteSets, TLC

VARIABLES
    inA, inB,   \* the two inputs handed to the builder
    build,      \* "debug": debug_assertions on, "release": off
    mode,       \* "new", "eager" / "lazy" (an adapter exists), "consumed", "dead"
    ctor,       \* the builder that was called
    a, b,       \* the adapter's two inner iterators
    ret,        \* the latest call and its result
    prev,       \* the inner iterators before the latest call
    pure,       \* only next() and next_back() have been called so far
    nFront,     \* while pure: the number of next() calls made
    nBack,      \* while pure: the number of next_back() calls made
    nPairs,     \* while pure: the number of calls that returned a pair
    eos         \* a stepping call has returned end-of-sequence

vars == <<inA, inB, build, mode, ctor, a, b, ret, prev, pure, nFront, nBack, nPairs, eos>>

\* ---- bounds ----
MaxLen == 3
MaxGaps == 1
MaxCalls == 5

\* ---- inputs ----
\* The adapters never inspect an item, so the item at position p is fixed: the
\* inputs of length 2 are the arrays [1, 2] and [3, 4] of the crate's tests.
Gap == 0
ValA(p) == p
ValB(p) == p + 2

GapPatterns ==
    {h \in UNION {[1..n -> BOOLEAN] : n \in 0..MaxLen} :
        Cardinality({p \in 1..Len(h) : h[p]}) <= MaxGaps}

InputsA == {[p \in 1..Len(g) |-> IF g[p] THEN Gap ELSE ValA(p)] : g \in GapPatterns}

InputsB == {[p \in 1..Len(g) |-> IF g[p] THEN Gap ELSE ValB(p)] : g \in GapPatterns}

\* ---- Option ----
None == [some |-> FALSE, x |-> <<>>]
Some(x) == [some |-> TRUE, x |-> x]

\* ---- inner iterators (the Iterator / DoubleEndedIterator contract) ----
IsFused(src) == \A i \in 1..Len(src) : src[i] # Gap

IntoIter(src) == [lo |-> 1, hi |-> Len(src) + 1]

IterLen(it) == it.hi - it.lo

Item(src, p) == [pos |-> p, val |-> src[p]]

IterNext(src, it) ==
    IF it.lo >= it.hi THEN [ret |-> None, it |-> it]
    ELSE IF src[it.lo] = Gap THEN [ret |-> None, it |-> [it EXCEPT !.lo = @ + 1]]
    ELSE [ret |-> Some(Item(src, it.lo)), it |-> [it EXCEPT !.lo = @ + 1]]

IterNextBack(src, it) ==
    IF it.lo >= it.hi THEN [ret |-> None, it |-> it]
    ELSE IF src[it.hi - 1] = Gap THEN [ret |-> None, it |-> [it EXCEPT !.hi = @ - 1]]
    ELSE [ret |-> Some(Item(src, it.hi - 1)), it |-> [it EXCEPT !.hi = @ - 1]]

\* Iterator::nth: advance_by(n), which stops at the first None, then next().
RECURSIVE IterNth(_, _, _)
IterNth(src, it, n) ==
    LET r == IterNext(src, it) IN
    IF n = 0 \/ ~r.ret.some THEN r ELSE IterNth(src, r.it, n - 1)

RECURSIVE IterNthBack(_, _, _)
IterNthBack(src, it, n) ==
    LET r == IterNextBack(src, it) IN
    IF n = 0 \/ ~r.ret.some THEN r ELSE IterNthBack(src, r.it, n - 1)

\* Iterator::last: keeps the latest item until the first None.
RECURSIVE IterLastFrom(_, _, _)
IterLastFrom(src, it, last) ==
    LET r == IterNext(src, it) IN
    IF r.ret.some THEN IterLastFrom(src, r.it, r.ret) ELSE [ret |-> last, it |-> r.it]

IterLast(src, it) == IterLastFrom(src, it, None)

\* Iterator::count: the number of items before the first None.
RECURSIVE IterCountFrom(_, _, _)
IterCountFrom(src, it, n) ==
    LET r == IterNext(src, it) IN
    IF r.ret.some THEN IterCountFrom(src, r.it, n + 1) ELSE [n |-> n, it |-> r.it]

IterCount(src, it) == IterCountFrom(src, it, 0)

\* ---- the accumulator function handed to the folds ----
\* The accumulator is the sequence of the pairs folded so far; with k > 0 the
\* function signals stop on its k-th application, with k = 0 it never stops.
F(acc, pair, k) ==
    IF Len(acc) + 1 = k THEN [brk |-> TRUE, acc |-> acc]
    ELSE [brk |-> FALSE, acc |-> Append(acc, pair)]

\* ---- result of one adapter operation ----
\* tag: "hint" (a size hint, in hint, from the inner hints in hin), "len" (a
\* length, in n), "some" (a pair, in val), "none" (end of sequence), "done" (a fold ran to
\* completion, its accumulator in acc), "break" (the accumulator function
\* signalled stop), "count" (a count, in n), "panic" (panic_different_len),
\* "unreachable" (unreachable_unchecked was called).  seen lists the pairs the
\* accumulator function was applied to; a and b are the inner iterators after
\* the operation.
Res(tag, val, acc, seen, ia, ib) ==
    [tag |-> tag, val |-> val, acc |-> acc, seen |-> seen, n |-> 0,
     hin |-> <<>>, hint |-> <<>>, a |-> ia, b |-> ib]

\* ---- size hints ----
\* A size hint is <<lower, upper>>, upper an Option.
Exact(n) == <<n, Some(n)>>

\* The size_hint() answers an inner iterator with n items left may give: the
\* exact one only for an iterator whose type is TrustedLen; otherwise any of
\* the sound shapes (exact, lower bound only, upper bound only, the default
\* (0, None)); and the default for an iterator that is not fused.
InnerSizeHints(src, it, trusted) ==
    LET n == IterLen(it) IN
    IF trusted THEN {Exact(n)}
    ELSE IF IsFused(src) THEN {Exact(n), <<n, None>>, <<0, Some(n)>>, <<0, None>>}
    ELSE {<<0, None>>}

Min(x, y) == IF x <= y THEN x ELSE y

Max(x, y) == IF x >= y THEN x ELSE y

\* faulty variant: the lower bounds are combined by min, as core::iter::Zip does
SizeHintImplMinLower(ha, hb) ==
    <<Min(ha[1], hb[1]),
      IF ha[2].some /\ hb[2].some THEN Some(Min(ha[2].x, hb[2].x))
      ELSE IF ha[2].some THEN Some(ha[2].x)
      ELSE IF hb[2].some THEN Some(hb[2].x)
      ELSE None>>

SizeHintImpl(ha, hb) ==
    <<Max(ha[1], hb[1]),
      IF ha[2].some /\ hb[2].some THEN Some(Min(ha[2].x, hb[2].x))
      ELSE IF ha[2].some THEN Some(ha[2].x)
      ELSE IF hb[2].some THEN Some(hb[2].x)
      ELSE None>>

\* ---- src/eager.rs ----
EagerBothOrNone(t, u) ==
    IF t.some /\ u.some THEN [tag |-> "some", val |-> <<t.x, u.x>>]
    ELSE IF ~t.some /\ ~u.some THEN [tag |-> "none", val |-> <<>>]
    ELSE [tag |-> "unreachable", val |-> <<>>]

\* faulty variant: the second inner iterator is stepped from the wrong end
EagerNextBackEnd(sa, sb, ia, ib) ==
    LET t == IterNext(sa, ia)
        u == IterNextBack(sb, ib)
        r == EagerBothOrNone(t.ret, u.ret)
    IN  Res(r.tag, r.val, <<>>, <<>>, t.it, u.it)

EagerNext(sa, sb, ia, ib) ==
    LET t == IterNext(sa, ia)
        u == IterNext(sb, ib)
        r == EagerBothOrNone(t.ret, u.ret)
    IN  Res(r.tag, r.val, <<>>, <<>>, t.it, u.it)

EagerLast(sa, sb, ia, ib) ==
    LET t == IterLast(sa, ia)
        u == IterLast(sb, ib)
        r == EagerBothOrNone(t.ret, u.ret)
    IN  Res(r.tag, r.val, <<>>, <<>>, t.it, u.it)

\* faulty variant: the second inner iterator is stepped once instead of skipped
EagerNthStepSecond(sa, sb, ia, ib, n) ==
    LET t == IterNth(sa, ia, n)
        u == IterNext(sb, ib)
        r == EagerBothOrNone(t.ret, u.ret)
    IN  Res(r.tag, r.val, <<>>, <<>>, t.it, u.it)

EagerNth(sa, sb, ia, ib, n) ==
    LET t == IterNth(sa, ia, n)
        u == IterNth(sb, ib, n)
        r == EagerBothOrNone(t.ret, u.ret)
    IN  Res(r.tag, r.val, <<>>, <<>>, t.it, u.it)

RECURSIVE EagerFoldFrom(_, _, _, _, _)
EagerFoldFrom(sa, sb, ia, ib, acc) ==
    LET t == IterNext(sa, ia) IN
    IF ~t.ret.some THEN Res("done", <<>>, acc, acc, t.it, ib)
    ELSE LET u == IterNext(sb, ib) IN
         IF ~u.ret.some THEN Res("unreachable", <<>>, acc, acc, t.it, u.it)
         ELSE EagerFoldFrom(sa, sb, t.it, u.it, F(acc, <<t.ret.x, u.ret.x>>, 0).acc)

EagerFold(sa, sb, ia, ib) == EagerFoldFrom(sa, sb, ia, ib, <<>>)

RECURSIVE EagerTryFoldFrom(_, _, _, _, _, _, _)
EagerTryFoldFrom(sa, sb, ia, ib, acc, seen, k) ==
    LET t == IterNext(sa, ia) IN
    IF ~t.ret.some THEN Res("done", <<>>, acc, seen, t.it, ib)
    ELSE LET u == IterNext(sb, ib) IN
         IF ~u.ret.some THEN Res("unreachable", <<>>, acc, seen, t.it, u.it)
         ELSE LET pair == <<t.ret.x, u.ret.x>>
                  fr == F(acc, pair, k)
              IN  IF fr.brk THEN Res("break", <<>>, fr.acc, Append(seen, pair), t.it, u.it)
                  ELSE EagerTryFoldFrom(sa, sb, t.it, u.it, fr.acc, Append(seen, pair), k)

\* faulty variant: the second inner iterator is pulled once more before stopping
EagerTryFoldPrefetch(sa, sb, ia, ib, k) ==
    LET r == EagerTryFoldFrom(sa, sb, ia, ib, <<>>, <<>>, k) IN
    IF r.tag = "break" THEN [r EXCEPT !.b = IterNext(sb, r.b).it] ELSE r

EagerTryFold(sa, sb, ia, ib, k) == EagerTryFoldFrom(sa, sb, ia, ib, <<>>, <<>>, k)

\* Iterator::count is not overridden: the provided method folds the adapter.
EagerCount(sa, sb, ia, ib) ==
    LET r == EagerFold(sa, sb, ia, ib) IN
    IF r.tag = "done" THEN [Res("count", <<>>, <<>>, <<>>, r.a, r.b) EXCEPT !.n = Len(r.acc)]
    ELSE Res(r.tag, <<>>, <<>>, <<>>, r.a, r.b)

EagerNextBack(sa, sb, ia, ib) ==
    LET t == IterNextBack(sa, ia)
        u == IterNextBack(sb, ib)
        r == EagerBothOrNone(t.ret, u.ret)
    IN  Res(r.tag, r.val, <<>>, <<>>, t.it, u.it)

EagerNthBack(sa, sb, ia, ib, n) ==
    LET t == IterNthBack(sa, ia, n)
        u == IterNthBack(sb, ib, n)
        r == EagerBothOrNone(t.ret, u.ret)
    IN  Res(r.tag, r.val, <<>>, <<>>, t.it, u.it)

RECURSIVE EagerTryRFoldFrom(_, _, _, _, _, _, _)
EagerTryRFoldFrom(sa, sb, ia, ib, acc, seen, k) ==
    LET t == IterNextBack(sa, ia) IN
    IF ~t.ret.some THEN Res("done", <<>>, acc, seen, t.it, ib)
    ELSE LET u == IterNextBack(sb, ib) IN
         IF ~u.ret.some THEN Res("unreachable", <<>>, acc, seen, t.it, u.it)
         ELSE LET pair == <<t.ret.x, u.ret.x>>
                  fr == F(acc, pair, k)
              IN  IF fr.brk THEN Res("break", <<>>, fr.acc, Append(seen, pair), t.it, u.it)
                  ELSE EagerTryRFoldFrom(sa, sb, t.it, u.it, fr.acc, Append(seen, pair), k)

EagerTryRFold(sa, sb, ia, ib, k) == EagerTryRFoldFrom(sa, sb, ia, ib, <<>>, <<>>, k)

RECURSIVE EagerRFoldFrom(_, _, _, _, _)
EagerRFoldFrom(sa, sb, ia, ib, acc) ==
    LET t == IterNextBack(sa, ia) IN
    IF ~t.ret.some THEN Res("done", <<>>, acc, acc, t.it, ib)
    ELSE LET u == IterNextBack(sb, ib) IN
         IF ~u.ret.some THEN Res("unreachable", <<>>, acc, acc, t.it, u.it)
         ELSE EagerRFoldFrom(sa, sb, t.it, u.it, F(acc, <<t.ret.x, u.ret.x>>, 0).acc)

\* faulty variant: the reverse fold runs from the front
EagerRFoldForward(sa, sb, ia, ib) == EagerFold(sa, sb, ia, ib)

EagerRFold(sa, sb, ia, ib) == EagerRFoldFrom(sa, sb, ia, ib, <<>>)

EagerSizeHint(ha, hb) == SizeHintImpl(ha, hb)

EagerLen(ia) == IterLen(ia)

\* ---- src/lazy.rs ----
\* faulty variant: a missing item on one side ends the sequence, as core::iter::Zip does
LazyBothOrNoneTruncating(t, u) ==
    IF t.some /\ u.some THEN [tag |-> "some", val |-> <<t.x, u.x>>]
    ELSE [tag |-> "none", val |-> <<>>]

LazyBothOrNone(t, u) ==
    IF t.some /\ u.some THEN [tag |-> "some", val |-> <<t.x, u.x>>]
    ELSE IF ~t.some /\ ~u.some THEN [tag |-> "none", val |-> <<>>]
    ELSE [tag |-> "panic", val |-> <<>>]

\* faulty variant: next() truncates to the shorter input, as core::iter::Zip does
LazyNextTruncating(sa, sb, ia, ib) ==
    LET t == IterNext(sa, ia)
        u == IterNext(sb, ib)
    IN  IF t.ret.some /\ u.ret.some
        THEN Res("some", <<t.ret.x, u.ret.x>>, <<>>, <<>>, t.it, u.it)
        ELSE Res("none", <<>>, <<>>, <<>>, t.it, u.it)

LazyNext(sa, sb, ia, ib) ==
    LET t == IterNext(sa, ia)
        u == IterNext(sb, ib)
        r == LazyBothOrNone(t.ret, u.ret)
    IN  Res(r.tag, r.val, <<>>, <<>>, t.it, u.it)

LazyCount(sa, sb, ia, ib) ==
    LET t == IterCount(sa, ia) IN
    [Res("count", <<>>, <<>>, <<>>, t.it, ib) EXCEPT !.n = t.n]

\* faulty variant: last() answers with the first pair
LazyLastReturnsFirst(sa, sb, ia, ib) ==
    LET t == IterNext(sa, ia)
        u == IterNext(sb, ib)
        r == LazyBothOrNone(t.ret, u.ret)
    IN  Res(r.tag, r.val, <<>>, <<>>, t.it, u.it)

LazyLast(sa, sb, ia, ib) ==
    LET t == IterLast(sa, ia)
        u == IterLast(sb, ib)
        r == LazyBothOrNone(t.ret, u.ret)
    IN  Res(r.tag, r.val, <<>>, <<>>, t.it, u.it)

\* faulty variant: both inner iterators skip one element too many
LazyNthSkipsOneMore(sa, sb, ia, ib, n) ==
    LET t == IterNth(sa, ia, n + 1)
        u == IterNth(sb, ib, n + 1)
        r == LazyBothOrNone(t.ret, u.ret)
    IN  Res(r.tag, r.val, <<>>, <<>>, t.it, u.it)

LazyNth(sa, sb, ia, ib, n) ==
    LET t == IterNth(sa, ia, n)
        u == IterNth(sb, ib, n)
        r == LazyBothOrNone(t.ret, u.ret)
    IN  Res(r.tag, r.val, <<>>, <<>>, t.it, u.it)

RECURSIVE LazyTryFoldFrom(_, _, _, _, _, _, _)
LazyTryFoldFrom(sa, sb, ia, ib, acc, seen, k) ==
    LET t == IterNext(sa, ia) IN
    IF ~t.ret.some THEN Res("done", <<>>, acc, seen, t.it, ib)
    ELSE LET u == IterNext(sb, ib) IN
         IF ~u.ret.some THEN Res("panic", <<>>, acc, seen, t.it, u.it)
         ELSE LET pair == <<t.ret.x, u.ret.x>>
                  fr == F(acc, pair, k)
              IN  IF fr.brk THEN Res("break", <<>>, fr.acc, Append(seen, pair), t.it, u.it)
                  ELSE LazyTryFoldFrom(sa, sb, t.it, u.it, fr.acc, Append(seen, pair), k)

\* faulty variant: the stop signal of the accumulator function is ignored
LazyTryFoldNoStop(sa, sb, ia, ib, k) == LazyTryFoldFrom(sa, sb, ia, ib, <<>>, <<>>, 0)

LazyTryFold(sa, sb, ia, ib, k) == LazyTryFoldFrom(sa, sb, ia, ib, <<>>, <<>>, k)

RECURSIVE LazyFoldFrom(_, _, _, _, _)
LazyFoldFrom(sa, sb, ia, ib, acc) ==
    LET t == IterNext(sa, ia) IN
    IF ~t.ret.some THEN Res("done", <<>>, acc, acc, t.it, ib)
    ELSE LET u == IterNext(sb, ib) IN
         IF ~u.ret.some THEN Res("panic", <<>>, acc, acc, t.it, u.it)
         ELSE LazyFoldFrom(sa, sb, t.it, u.it, F(acc, <<t.ret.x, u.ret.x>>, 0).acc)

LazyFold(sa, sb, ia, ib) == LazyFoldFrom(sa, sb, ia, ib, <<>>)

\* faulty variant: the second inner iterator is stepped from the front
LazyNextBackFrontEnd(sa, sb, ia, ib) ==
    LET t == IterNextBack(sa, ia)
        u == IterNext(sb, ib)
        r == LazyBothOrNone(t.ret, u.ret)
    IN  Res(r.tag, r.val, <<>>, <<>>, t.it, u.it)

LazyNextBack(sa, sb, ia, ib) ==
    LET t == IterNextBack(sa, ia)
        u == IterNextBack(sb, ib)
        r == LazyBothOrNone(t.ret, u.ret)
    IN  Res(r.tag, r.val, <<>>, <<>>, t.it, u.it)

LazyNthBack(sa, sb, ia, ib, n) ==
    LET t == IterNthBack(sa, ia, n)
        u == IterNthBack(sb, ib, n)
        r == LazyBothOrNone(t.ret, u.ret)
    IN  Res(r.tag, r.val, <<>>, <<>>, t.it, u.it)

RECURSIVE LazyTryRFoldFrom(_, _, _, _, _, _, _)
LazyTryRFoldFrom(sa, sb, ia, ib, acc, seen, k) ==
    LET t == IterNextBack(sa, ia) IN
    IF ~t.ret.some THEN Res("done", <<>>, acc, seen, t.it, ib)
    ELSE LET u == IterNextBack(sb, ib) IN
         IF ~u.ret.some THEN Res("panic", <<>>, acc, seen, t.it, u.it)
         ELSE LET pair == <<t.ret.x, u.ret.x>>
                  fr == F(acc, pair, k)
              IN  IF fr.brk THEN Res("break", <<>>, fr.acc, Append(seen, pair), t.it, u.it)
                  ELSE LazyTryRFoldFrom(sa, sb, t.it, u.it, fr.acc, Append(seen, pair), k)

LazyTryRFold(sa, sb, ia, ib, k) == LazyTryRFoldFrom(sa, sb, ia, ib, <<>>, <<>>, k)

RECURSIVE LazyRFoldFrom(_, _, _, _, _)
LazyRFoldFrom(sa, sb, ia, ib, acc) ==
    LET t == IterNextBack(sa, ia) IN
    IF ~t.ret.some THEN Res("done", <<>>, acc, acc, t.it, ib)
    ELSE LET u == IterNextBack(sb, ib) IN
         IF ~u.ret.some THEN Res("panic", <<>>, acc, acc, t.it, u.it)
         ELSE LazyRFoldFrom(sa, sb, t.it, u.it, F(acc, <<t.ret.x, u.ret.x>>, 0).acc)

LazyRFold(sa, sb, ia, ib) == LazyRFoldFrom(sa, sb, ia, ib, <<>>)

LazySizeHint(ha, hb) == SizeHintImpl(ha, hb)

LazyLen(ia) == IterLen(ia)

\* ---- src/lib.rs ----
PanicDifferentLen == "panic"

\* the possible results of code that follows a call of core::hint::unreachable_unchecked
UBOutcomes == {"ub_none", "ub_value", "ub_fault"}

\* unreachable_unchecked: unreachable!() with debug assertions, undefined
\* behaviour without them.
Outcomes(tag) ==
    IF tag = "unreachable" /\ build = "release" THEN UBOutcomes ELSE {tag}

Halts(tag) == tag \in {PanicDifferentLen, "unreachable"} \cup UBOutcomes

NoRet ==
    [op |-> "none", arg |-> 0, tag |-> "none", val |-> <<>>, acc |-> <<>>, seen |-> <<>>, n |-> 0,
     hin |-> <<>>, hint |-> <<>>]

Init ==
    /\ inA \in InputsA
    /\ inB \in InputsB
    /\ build \in {"debug", "release"}
    /\ mode = "new"
    /\ ctor = "none"
    /\ a = IntoIter(inA)
    /\ b = IntoIter(inB)
    /\ ret = NoRet
    /\ prev = [a |-> a, b |-> b]
    /\ pure = TRUE
    /\ nFront = 0
    /\ nBack = 0
    /\ nPairs = 0
    /\ eos = FALSE

Construct(name, m, tag) ==
    /\ mode = "new"
    /\ mode' = m
    /\ ctor' = name
    /\ a' = IntoIter(inA)
    /\ b' = IntoIter(inB)
    /\ ret' = [NoRet EXCEPT !.op = name, !.tag = tag]
    /\ prev' = [a |-> a', b |-> b']
    /\ UNCHANGED <<inA, inB, build, pure, nFront, nBack, nPairs, eos>>

ZipEqUnchecked == Construct("zip_eq_unchecked", "eager", "built")

\* faulty variant: the comparison of the two lengths is left out
ZipEqEagerNoCheck ==
    /\ IsFused(inA) /\ IsFused(inB)
    /\ Construct("zip_eq_eager", "eager", "built")

\* Both inputs are TrustedLen and ExactSizeIterator.
ZipEqEager ==
    /\ IsFused(inA) /\ IsFused(inB)
    /\ IF IterLen(IntoIter(inA)) # IterLen(IntoIter(inB))
       THEN Construct("zip_eq_eager", "dead", PanicDifferentLen)
       ELSE Construct("zip_eq_eager", "eager", "built")

ZipEqLazy == Construct("zip_eq_lazy", "lazy", "built")

Stepping == {"next", "next_back", "nth", "nth_back"}

\* One call of an adapter method: r is what the method computes.
Call(op, arg, r, consuming) ==
    /\ mode \in {"eager", "lazy"}
    /\ prev' = [a |-> a, b |-> b]
    /\ a' = r.a
    /\ b' = r.b
    /\ pure' = (pure /\ op \in {"next", "next_back"})
    /\ \E out \in Outcomes(r.tag) :
        /\ ret' = [op |-> op, arg |-> arg, tag |-> out, val |-> r.val,
                   acc |-> r.acc, seen |-> r.seen, n |-> r.n,
                   hin |-> r.hin, hint |-> r.hint]
        /\ mode' = IF Halts(out) THEN "dead" ELSE IF consuming THEN "consumed" ELSE mode
        /\ nPairs' = IF ~pure' THEN 0 ELSE IF out = "some" THEN nPairs + 1 ELSE nPairs
        /\ eos' = (eos \/ (out = "none" /\ op \in Stepping))
    /\ nFront' = IF ~pure' THEN 0 ELSE IF op = "next" THEN nFront + 1 ELSE nFront
    /\ nBack' = IF ~pure' THEN 0 ELSE IF op = "next_back" THEN nBack + 1 ELSE nBack
    /\ UNCHANGED <<inA, inB, build, ctor>>

Next_ ==
    /\ nFront + nBack < MaxCalls
    /\ Call("next", 0, IF mode = "eager" THEN EagerNext(inA, inB, a, b)
                       ELSE LazyNext(inA, inB, a, b), FALSE)

NextBack ==
    /\ nFront + nBack < MaxCalls
    /\ Call("next_back", 0, IF mode = "eager" THEN EagerNextBack(inA, inB, a, b)
                            ELSE LazyNextBack(inA, inB, a, b), FALSE)

Nth ==
    \E n \in 0..MaxLen :
        Call("nth", n, IF mode = "eager" THEN EagerNth(inA, inB, a, b, n)
                       ELSE LazyNth(inA, inB, a, b, n), FALSE)

NthBack ==
    \E n \in 0..MaxLen :
        Call("nth_back", n, IF mode = "eager" THEN EagerNthBack(inA, inB, a, b, n)
                            ELSE LazyNthBack(inA, inB, a, b, n), FALSE)

Last ==
    Call("last", 0, IF mode = "eager" THEN EagerLast(inA, inB, a, b)
                    ELSE LazyLast(inA, inB, a, b), TRUE)

Count ==
    Call("count", 0, IF mode = "eager" THEN EagerCount(inA, inB, a, b)
                     ELSE LazyCount(inA, inB, a, b), TRUE)

Fold ==
    Call("fold", 0, IF mode = "eager" THEN EagerFold(inA, inB, a, b)
                    ELSE LazyFold(inA, inB, a, b), TRUE)

RFold ==
    Call("rfold", 0, IF mode = "eager" THEN EagerRFold(inA, inB, a, b)
                     ELSE LazyRFold(inA, inB, a, b), TRUE)

TryFold ==
    \E k \in 0..MaxLen :
        Call("try_fold", k, IF mode = "eager" THEN EagerTryFold(inA, inB, a, b, k)
                            ELSE LazyTryFold(inA, inB, a, b, k), FALSE)

TryRFold ==
    \E k \in 0..MaxLen :
        Call("try_rfold", k, IF mode = "eager" THEN EagerTryRFold(inA, inB, a, b, k)
                             ELSE LazyTryRFold(inA, inB, a, b, k), FALSE)

\* size_hint(&self): ha and hb are the answers of the two inner iterators.
SizeHint ==
    \E ha \in InnerSizeHints(inA, a, ctor = "zip_eq_eager"),
       hb \in InnerSizeHints(inB, b, ctor = "zip_eq_eager") :
        Call("size_hint", 0,
             [Res("hint", <<>>, <<>>, <<>>, a, b) EXCEPT
                 !.hin = <<ha, hb>>,
                 !.hint = IF mode = "eager" THEN EagerSizeHint(ha, hb)
                          ELSE LazySizeHint(ha, hb)],
             FALSE)

\* ExactSizeIterator::len(&self): both inner iterators are ExactSizeIterator.
ExactLen ==
    /\ IsFused(inA) /\ IsFused(inB)
    /\ Call("len", 0,
            [Res("len", <<>>, <<>>, <<>>, a, b) EXCEPT
                !.n = IF mode = "eager" THEN EagerLen(a) ELSE LazyLen(a)],
            FALSE)

Next ==
    \/ ZipEqUnchecked
    \/ ZipEqEager
    \/ ZipEqLazy
    \/ Next_
    \/ NextBack
    \/ Nth
    \/ NthBack
    \/ Last
    \/ Count
    \/ Fold
    \/ RFold
    \/ TryFold
    \/ TryRFold
    \/ SizeHint
    \/ ExactLen

Spec == Init /\ [][Next]_vars

\* ---- size_hint over arbitrary answers of the inner iterators ----
\* every (usize, Option<usize>) within the bound
Hints == {<<lo, hi>> : lo \in 0..MaxLen, hi \in {None} \cup {Some(h) : h \in 0..MaxLen}}

InitSizeHint ==
    /\ inA = <<>>
    /\ inB = <<>>
    /\ build = "debug"
    /\ mode \in {"eager", "lazy"}
    /\ ctor = "none"
    /\ a = IntoIter(inA)
    /\ b = IntoIter(inB)
    /\ \E ha \in Hints, hb \in Hints :
          ret = [NoRet EXCEPT !.op = "inner_size_hint", !.hin = <<ha, hb>>]
    /\ prev = [a |-> a, b |-> b]
    /\ pure = TRUE
    /\ nFront = 0
    /\ nBack = 0
    /\ nPairs = 0
    /\ eos = FALSE

ApplySizeHint ==
    /\ ret.op = "inner_size_hint"
    /\ ret' = [ret EXCEPT !.op = "size_hint", !.tag = "hint",
                          !.hint = IF mode = "eager"
                                   THEN EagerSizeHint(ret.hin[1], ret.hin[2])
                                   ELSE LazySizeHint(ret.hin[1], ret.hin[2])]
    /\ UNCHANGED <<inA, inB, build, mode, ctor, a, b, prev, pure, nFront, nBack, nPairs, eos>>

SpecSizeHint == InitSizeHint /\ [][ApplySizeHint]_vars

\* ======================= properties =======================
\* the pair of the items at position i of the two inputs
Pair(i) == <<Item(inA, i), Item(inB, i)>>

BothFused == IsFused(inA) /\ IsFused(inB)

EqualLen == BothFused /\ Len(inA) = Len(inB)

DifferentLen == BothFused /\ Len(inA) # Len(inB)

Checked == ctor \in {"zip_eq_eager", "zip_eq_lazy"}

NextOnly == pure /\ nBack = 0

\* C1: over inputs of equal length len, an adapter built by zip_eq_eager or by
\* zip_eq_lazy and driven by next() alone returns the pair (A[i], B[i]) on call
\* i + 1 for i < len, end-of-sequence on every call after that, and never fails.
C1_EqualLenNext ==
    (EqualLen /\ Checked /\ NextOnly) =>
        /\ nFront = 0 => (ret.tag = "built" /\ mode \in {"eager", "lazy"})
        /\ (1 <= nFront /\ nFront <= Len(inA)) =>
               (ret.tag = "some" /\ ret.val = Pair(nFront) /\ mode \in {"eager", "lazy"})
        /\ nFront > Len(inA) => (ret.tag = "none" /\ mode \in {"eager", "lazy"})

C1_Witness ==
    /\ EqualLen /\ ctor = "zip_eq_eager" /\ NextOnly
    /\ Len(inA) = 3 /\ nFront = 4 /\ ret.tag = "none"

\* C2: zip_eq_eager fails with the length-mismatch panic exactly when the two
\* lengths differ; then nothing has been consumed, no pair is ever produced and
\* no adapter exists; with equal lengths it returns an adapter whose two inner
\* iterators are at their first element.
C2_EagerConstruction ==
    ctor = "zip_eq_eager" =>
        /\ Len(inA) # Len(inB) =>
               /\ ret.op = "zip_eq_eager" /\ ret.tag = PanicDifferentLen
               /\ mode = "dead" /\ nPairs = 0
               /\ a = IntoIter(inA) /\ b = IntoIter(inB)
        /\ (Len(inA) = Len(inB) /\ ret.op = "zip_eq_eager") =>
               /\ ret.tag = "built" /\ mode = "eager"
               /\ a = IntoIter(inA) /\ b = IntoIter(inB)
        /\ Len(inA) = Len(inB) => ~(ret.op = "zip_eq_eager" /\ ret.tag = PanicDifferentLen)

C2_Witness ==
    /\ ctor = "zip_eq_eager" /\ ret.tag = PanicDifferentLen
    /\ Len(inA) = 3 /\ Len(inB) = 2

\* C3: zip_eq_lazy never fails; over inputs of different lengths, with
\* m = min(len(A), len(B)), an adapter driven by next() alone returns
\* (A[i], B[i]) on call i + 1 for i < m and panics on call m + 1.
C3_LazyDifferentLenNext ==
    /\ ret.op = "zip_eq_lazy" => (ret.tag = "built" /\ mode = "lazy")
    /\ (DifferentLen /\ ctor = "zip_eq_lazy" /\ NextOnly) =>
        LET m == Min(Len(inA), Len(inB)) IN
        /\ nFront <= m + 1
        /\ (1 <= nFront /\ nFront <= m) =>
               (ret.tag = "some" /\ ret.val = Pair(nFront) /\ mode = "lazy")
        /\ nFront = m + 1 => (ret.tag = PanicDifferentLen /\ mode = "dead")

C3_Witness ==
    /\ DifferentLen /\ ctor = "zip_eq_lazy" /\ NextOnly
    /\ Len(inA) = 3 /\ Len(inB) = 2 /\ nFront = 3 /\ ret.tag = PanicDifferentLen

\* the latest call was made on an adapter that no call had changed yet
Fresh == prev = [a |-> IntoIter(inA), b |-> IntoIter(inB)]

\* C4: on a ZipEqLazyCheck over inputs of different lengths, fold, rfold and a
\* try_fold / try_rfold that never stops panic with the length mismatch, having
\* applied the accumulator function to exactly min(len(A), len(B)) pairs,
\* whichever input is the shorter one.
C4_LazyFoldDifferentLen ==
    (ctor = "zip_eq_lazy" /\ DifferentLen /\ Fresh
        /\ ret.op \in {"fold", "rfold", "try_fold", "try_rfold"} /\ ret.arg = 0) =>
        /\ ret.tag = PanicDifferentLen
        /\ Len(ret.seen) = Min(Len(inA), Len(inB))

\* C5: on a ZipEqLazyCheck over inputs of different lengths, count() and last()
\* panic with the length mismatch: count() returns no count and last() no pair.
C5_LazyCountLastDifferentLen ==
    (ctor = "zip_eq_lazy" /\ DifferentLen /\ Fresh /\ ret.op \in {"count", "last"}) =>
        ret.tag = PanicDifferentLen

\* C6: on a ZipEqLazyCheck, nth(n) and nth_back(n) return end-of-sequence only
\* when the two inner iterators had the same remaining length, and panic when
\* the remaining lengths differ and n is at least the shorter one.
C6_LazyNthDifferentLen ==
    (ctor = "zip_eq_lazy" /\ BothFused /\ ret.op \in {"nth", "nth_back"}) =>
        LET ra == IterLen(prev.a)
            rb == IterLen(prev.b)
        IN  /\ ret.tag = "none" => ra = rb
            /\ (ra # rb /\ ret.arg >= Min(ra, rb)) => ret.tag = PanicDifferentLen

\* C7: once an adapter whose first inner iterator is fused has returned
\* end-of-sequence from a stepping call, every later next() and next_back()
\* returns end-of-sequence too (FusedIterator is implemented for A: FusedIterator
\* and any B).
C7_Fused ==
    [][(Checked /\ IsFused(inA) /\ eos /\ ret'.op \in {"next", "next_back"})
          => ret'.tag = "none"]_vars

\* the loop `while let Some(pair) = adapter.next() { acc = f(acc, pair)? }`
RECURSIVE NextLoop(_, _, _, _, _)
NextLoop(ia, ib, acc, seen, k) ==
    LET r == IF ctor = "zip_eq_lazy" THEN LazyNext(inA, inB, ia, ib)
             ELSE EagerNext(inA, inB, ia, ib)
    IN  IF r.tag = "some"
        THEN LET fr == F(acc, r.val, k) IN
             IF fr.brk THEN [tag |-> "break", acc |-> fr.acc, seen |-> Append(seen, r.val)]
             ELSE NextLoop(r.a, r.b, fr.acc, Append(seen, r.val), k)
        ELSE [tag |-> IF r.tag = "none" THEN "done" ELSE r.tag, acc |-> acc, seen |-> seen]

\* C8: over inputs of equal length, on either adapter, fold and try_fold return
\* what the loop over next() returns that applies the accumulator function to
\* each pair and stops where it signals stop; the function is applied to the
\* same pairs in the same order.
C8_FoldIsNextLoop ==
    (EqualLen /\ Checked /\ ret.op \in {"fold", "try_fold"}) =>
        LET loop == NextLoop(prev.a, prev.b, <<>>, <<>>, ret.arg) IN
        /\ ret.tag = loop.tag
        /\ ret.acc = loop.acc
        /\ ret.seen = loop.seen

C8_Witness ==
    /\ EqualLen /\ ctor = "zip_eq_lazy" /\ Fresh /\ Len(inA) = 3
    /\ ret.op = "try_fold" /\ ret.arg = 2 /\ ret.tag = "break"
    /\ ret.acc = <<Pair(1)>> /\ ret.seen = <<Pair(1), Pair(2)>>

Reverse(s) == [i \in 1..Len(s) |-> s[Len(s) + 1 - i]]

\* the values of the pairs of an accumulator
Values(acc) == [i \in 1..Len(acc) |-> <<acc[i][1].val, acc[i][2].val>>]

\* C9: over inputs of equal length, on either adapter, rfold and a try_rfold
\* that never stops apply the accumulator function to the remaining pairs from
\* the last to the first; on a whole input that is (A[len-1], B[len-1]), ...,
\* (A[0], B[0]), the forward fold over the two reversed inputs.
C9_RFoldIsReverse ==
    (EqualLen /\ Checked /\ ret.op \in {"rfold", "try_rfold"} /\ ret.arg = 0) =>
        /\ ret.tag = "done"
        /\ ret.acc = [i \in 1..IterLen(prev.a) |-> Pair(prev.a.hi - i)]
        /\ ret.seen = ret.acc
        /\ Fresh =>
             LET ra == Reverse(inA)
                 rb == Reverse(inB)
                 fwd == IF ctor = "zip_eq_lazy"
                        THEN LazyFold(ra, rb, IntoIter(ra), IntoIter(rb))
                        ELSE EagerFold(ra, rb, IntoIter(ra), IntoIter(rb))
             IN  Values(ret.acc) = Values(fwd.acc)

C9_Witness ==
    /\ EqualLen /\ ctor = "zip_eq_eager" /\ Fresh /\ Len(inA) = 3
    /\ ret.op = "rfold" /\ ret.tag = "done"
    /\ ret.acc = <<Pair(3), Pair(2), Pair(1)>>

\* C10: over inputs of equal length len, on either adapter and under any
\* interleaving of next() and next_back(), the k-th next() that returns a pair
\* returns (A[k-1], B[k-1]), the k-th next_back() that returns a pair returns
\* (A[len-k], B[len-k]), no position is returned twice, and a call returns
\* end-of-sequence exactly when len pairs have been returned before it.
C10_MixedDirections ==
    (EqualLen /\ Checked /\ pure /\ ret.op \in {"next", "next_back"}) =>
        /\ ret.tag \in {"some", "none"}
        /\ ret.tag = "some" =>
             /\ nFront + nBack = nPairs
             /\ nPairs <= Len(inA)
             /\ ret.val = IF ret.op = "next" THEN Pair(nFront)
                          ELSE Pair(Len(inA) + 1 - nBack)
        /\ ret.tag = "none" => nPairs = Len(inA)

C10_Witness ==
    /\ EqualLen /\ ctor = "zip_eq_lazy" /\ pure /\ Len(inA) = 3
    /\ nFront = 2 /\ nBack = 2 /\ nPairs = 3 /\ ret.op = "next_back" /\ ret.tag = "none"

\* the number of pairs the adapter yields from now on when driven by next()
PairsLeft == Len(NextLoop(a, b, <<>>, <<>>, 0).seen)

\* C11: on an adapter returned by zip_eq_eager, after any calls of next,
\* next_back, nth, nth_back, try_fold and try_rfold (stopping anywhere), the two
\* inner iterators have the same remaining length, unreachable_unchecked has
\* never been called, and len() is the number of pairs still to be yielded.
C11_EagerLockStep ==
    ctor = "zip_eq_eager" =>
        /\ ret.tag \notin ({"unreachable"} \cup UBOutcomes)
        /\ mode = "eager" => (IterLen(a) = IterLen(b) /\ a.lo = b.lo)
        /\ ret.op = "len" =>
             /\ ret.n = PairsLeft
             /\ NextLoop(a, b, <<>>, <<>>, 0).tag = "done"

C11_Witness ==
    /\ ctor = "zip_eq_eager" /\ mode = "eager" /\ Len(inA) = 3
    /\ a = [lo |-> 2, hi |-> 3] /\ ret.op = "len" /\ ret.n = 1

\* C12: the len() of a ZipEqLazyCheck reports the first inner iterator's length
\* only when the two inner iterators have the same remaining length.
C12_LazyLenOnlyWhenEqual ==
    (ctor = "zip_eq_lazy" /\ ret.op = "len") => IterLen(a) = IterLen(b)

\* C13: whenever the first inner iterator's size hint is its trusted exact
\* length, the adapter's size_hint is (p, Some(p)), p the number of pairs the
\* adapter yields before end-of-sequence (TrustedLen is implemented for
\* A: TrustedLen and any B).
C13_TrustedLen ==
    (Checked /\ IsFused(inA) /\ ret.op = "size_hint" /\ ret.hin[1] = Exact(IterLen(a))) =>
        ret.hint = Exact(PairsLeft)

\* C14: the size_hint of either adapter combines the two inner hints: its lower
\* bound is the larger of the two lower bounds; its upper bound is the smaller
\* of the two upper bounds when both are known, the known one when one is
\* known, unknown when neither is; every pair of inner hints has a result.
C14_SizeHintCombination ==
    /\ ret.op = "inner_size_hint" => ENABLED ApplySizeHint
    /\ ret.op = "size_hint" =>
        LET ha == ret.hin[1]
            hb == ret.hin[2]
            h == ret.hint
        IN  /\ h[1] \in {ha[1], hb[1]} /\ h[1] >= ha[1] /\ h[1] >= hb[1]
            /\ (ha[2].some /\ hb[2].some) =>
                  /\ h[2].some /\ h[2].x \in {ha[2].x, hb[2].x}
                  /\ h[2].x <= ha[2].x /\ h[2].x <= hb[2].x
            /\ (ha[2].some /\ ~hb[2].some) => h[2] = ha[2]
            /\ (~ha[2].some /\ hb[2].some) => h[2] = hb[2]
            /\ (~ha[2].some /\ ~hb[2].some) => h[2] = None

C14_Witness ==
    /\ ret.op = "size_hint" /\ mode = "lazy"
    /\ ret.hin = <<<<1, None>>, <<2, Some(3)>>>>
    /\ ret.hint = <<2, Some(3)>>

\* C15: over inputs of equal length, on either adapter, with c pairs consumed
\* from the front: nth(n) with n below the remaining length returns the pair at
\* offset c + n, and a next() right after it returns the pair at offset
\* c + n + 1 or end-of-sequence; nth(n) with n at or above the remaining length
\* returns end-of-sequence without failure and leaves the adapter exhausted.
C15_NthEqualLen ==
    [][(EqualLen /\ Checked /\ mode \in {"eager", "lazy"}) =>
        /\ ret'.op = "nth" =>
             IF ret'.arg < IterLen(a)
             THEN /\ ret'.tag = "some"
                  /\ ret'.val = Pair(a.lo + ret'.arg)
                  /\ mode' = mode
             ELSE /\ ret'.tag = "none"
                  /\ mode' = mode
                  /\ IterLen(a') = 0 /\ IterLen(b') = 0
        /\ (ret.op = "nth" /\ ret'.op = "next") =>
             IF ret.tag = "some" /\ prev.a.lo + ret.arg + 1 < prev.a.hi
             THEN ret'.tag = "some" /\ ret'.val = Pair(prev.a.lo + ret.arg + 1)
             ELSE ret'.tag = "none"]_vars

C15_Witness ==
    /\ EqualLen /\ ctor = "zip_eq_lazy" /\ Len(inA) = 3
    /\ ret.op = "nth" /\ ret.arg = 1 /\ prev.a = [lo |-> 1, hi |-> 4]
    /\ ret.tag = "some" /\ ret.val = Pair(2) /\ a.lo = 3 /\ b.lo = 3

\* C16: over inputs of equal length len, on either adapter taken whole: count()
\* returns len; last() returns the pair at the last position when len > 0 and
\* none when len = 0; for len = 0 the construction succeeds and the first
\* next() returns end-of-sequence.
C16_CountLastEmpty ==
    (EqualLen /\ Checked /\ Fresh) =>
        /\ ret.op = "count" => (ret.tag = "count" /\ ret.n = Len(inA))
        /\ ret.op = "last" =>
             IF Len(inA) > 0 THEN ret.tag = "some" /\ ret.val = Pair(Len(inA))
             ELSE ret.tag = "none"
        /\ Len(inA) = 0 =>
             /\ ret.op = ctor => (ret.tag = "built" /\ mode \in {"eager", "lazy"})
             /\ ret.op = "next" => (ret.tag = "none" /\ mode \in {"eager", "lazy"})

C16_Witness ==
    /\ EqualLen /\ ctor = "zip_eq_lazy" /\ Fresh /\ Len(inA) = 3
    /\ ret.op = "last" /\ ret.tag = "some" /\ ret.val = Pair(3)

\* C17: over inputs of equal length, on either adapter, a try_fold (try_rfold)
\* whose accumulator function signals stop at the k-th pair it is given has
\* consumed exactly k elements from the front (back) of each inner iterator,
\* and the next() (next_back()) right after it returns the pair that follows
\* the one that caused the stop, or end-of-sequence when that was the last one.
C17_TryFoldNoOvershoot ==
    [][(EqualLen /\ Checked /\ mode \in {"eager", "lazy"}) =>
        /\ (ret'.op \in {"try_fold", "try_rfold"}
              /\ 1 <= ret'.arg /\ ret'.arg <= IterLen(a)) => ret'.tag = "break"
        /\ (ret'.op = "try_fold" /\ ret'.tag = "break") =>
             /\ a' = [a EXCEPT !.lo = @ + ret'.arg]
             /\ b' = [b EXCEPT !.lo = @ + ret'.arg]
             /\ Len(ret'.seen) = ret'.arg
             /\ mode' = mode
        /\ (ret'.op = "try_rfold" /\ ret'.tag = "break") =>
             /\ a' = [a EXCEPT !.hi = @ - ret'.arg]
             /\ b' = [b EXCEPT !.hi = @ - ret'.arg]
             /\ Len(ret'.seen) = ret'.arg
             /\ mode' = mode
        /\ (ret.op = "try_fold" /\ ret.tag = "break" /\ ret'.op = "next") =>
             IF prev.a.lo + ret.arg < prev.a.hi
             THEN ret'.tag = "some" /\ ret'.val = Pair(prev.a.lo + ret.arg)
             ELSE ret'.tag = "none"
        /\ (ret.op = "try_rfold" /\ ret.tag = "break" /\ ret'.op = "next_back") =>
             IF prev.a.hi - ret.arg > prev.a.lo
             THEN ret'.tag = "some" /\ ret'.val = Pair(prev.a.hi - ret.arg - 1)
             ELSE ret'.tag = "none"]_vars

C17_Witness ==
    /\ EqualLen /\ ctor = "zip_eq_eager" /\ Fresh /\ Len(inA) = 3
    /\ ret.op = "try_fold" /\ ret.arg = 2 /\ ret.tag = "break"
    /\ a = [lo |-> 3, hi |-> 4] /\ b = [lo |-> 3, hi |-> 4]

\* C18: zip_eq_unchecked compares nothing and consumes nothing; over inputs of
\* different lengths, in the build with debug assertions, every call on its
\* adapter that runs past the end of the shorter input (next, next_back, nth,
\* nth_back, last, fold, rfold, try_fold, try_rfold) reaches the unreachable
\* fault, and none returns end-of-sequence or a completed accumulator.
C18_UncheckedMisuseFaults ==
    (ctor = "zip_eq_unchecked" /\ build = "debug" /\ BothFused) =>
        LET ra == IterLen(prev.a)
            rb == IterLen(prev.b)
        IN  /\ ret.op = "zip_eq_unchecked" =>
                 (ret.tag = "built" /\ a = IntoIter(inA) /\ b = IntoIter(inB))
            /\ (ra # rb /\ ret.op \in {"next", "next_back"} /\ Min(ra, rb) = 0) =>
                 ret.tag = "unreachable"
            /\ (ra # rb /\ ret.op \in {"nth", "nth_back"} /\ ret.arg >= Min(ra, rb)) =>
                 ret.tag = "unreachable"
            /\ (ra # rb /\ ret.op \in {"last", "fold", "rfold"}) =>
                 ret.tag = "unreachable"
            /\ (ra # rb /\ ret.op \in {"try_fold", "try_rfold"}
                  /\ (ret.arg = 0 \/ ret.arg > Min(ra, rb))) =>
                 ret.tag = "unreachable"

\* C19: on a ZipEqLazyCheck over double-ended inputs of different lengths, with
\* m = min(len(A), len(B)), under any interleaving of next() and next_back()
\* the first m calls each return a pair, call m + 1 panics with the length
\* mismatch, and no call returns end-of-sequence.
C19_LazyMixedDifferentLen ==
    (ctor = "zip_eq_lazy" /\ DifferentLen /\ pure) =>
        LET m == Min(Len(inA), Len(inB))
            n == nFront + nBack
        IN  /\ n <= m + 1
            /\ (1 <= n /\ n <= m) => (ret.tag = "some" /\ mode = "lazy" /\ nPairs = n)
            /\ n = m + 1 => (ret.tag = PanicDifferentLen /\ mode = "dead" /\ nPairs = m)
            /\ ~eos

C19_Witness ==
    /\ ctor = "zip_eq_lazy" /\ DifferentLen /\ pure
    /\ Len(inA) = 2 /\ Len(inB) = 3
    /\ nFront = 1 /\ nBack = 2 /\ ret.op = "next" /\ ret.tag = PanicDifferentLen

\* a size hint h is sound for an iterator that has n items left
Sound(h, n) == h[1] <= n /\ (h[2].some => n <= h[2].x)

\* C20: when the two inner iterators have the same remaining length n and
\* their size hints are sound, the size_hint (lo, hi) of the adapter has
\* lo <= n, and n <= hi when hi is known; and on a ZipEqLazyCheck over inputs
\* of different exact lengths the size_hint still has lo <= hi.
C20_SizeHintSound ==
    ret.op = "size_hint" =>
        LET ra == IterLen(a)
            rb == IterLen(b)
        IN  /\ (ra = rb /\ Sound(ret.hin[1], ra) /\ Sound(ret.hin[2], rb)) =>
                 Sound(ret.hint, ra)
            /\ (ctor = "zip_eq_lazy" /\ DifferentLen /\ ra # rb
                  /\ ret.hin = <<Exact(ra), Exact(rb)>>) =>
                 (ret.hint[2].some /\ ret.hint[1] <= ret.hint[2].x)

====
